---- MODULE Spec2Model ----
(***************************************************************************)
(* The session lifecycle of AudioGuestBook (src/src/audioGuestBook.py).    *)
(*                                                                         *)
(* Threads of the program:                                                 *)
(*   - the edge-delivery thread, which runs off_hook / on_hook /           *)
(*     pressed_record_greeting / released_record_greeting one at a time;   *)
(*   - one worker thread per Engaged (play_greeting_and_beep or            *)
(*     beep_and_record_greeting);                                          *)
(*   - one threading.Timer thread per start_recording (time_exceeded).     *)
(* The code takes no lock, so every statement that reads or writes state   *)
(* shared with another thread is a step of its own.                        *)
(*                                                                         *)
(* audioInterface.py is not part of the sources at hand: the Audio Service *)
(* (play_audio, stop_playback, start_recording, stop_recording) follows    *)
(* the contract of the specification, section 6.                           *)
(***************************************************************************)
EXTENDS Naturals, Sequences, FiniteSets

\* Bound: the number of Engaged events (sessions, hence worker threads) a run holds.
MaxSessions == 2

Sessions == 1..MaxSessions

VARIABLES
    hook,               \* position of the handset as last delivered: "on" / "off"
    button,             \* record-greeting button as last delivered: "up" / "down"
    cb,                 \* position of the edge-delivery thread inside a handler
    continue_playback,  \* self.continue_playback
    ai_continue,        \* self.audio_interface.continue_playback
    greeting_thread,    \* self.greeting_thread: a session id, 0 = attribute not set
    timer,              \* self.timer: a session id, 0 = attribute not set
    nextId,             \* id the next worker thread gets
    kind,               \* kind[w]: "none", "call" or "greeting"
    pc,                 \* pc[w]: position of worker w
    tstate,             \* tstate[w]: state of the Timer armed by session w
    recording,          \* Audio Service: session whose capture is active, 0 = none
    playing,            \* Audio Service: play_audio calls in progress, <<w, file>>
    err,                \* an exception escaped a callback
    calls,              \* calls[w]: Audio Service calls worker w has issued, in order
    disturbed,          \* disturbed[w]: a Released or a deadline came before w's beep
    arrival,            \* where the latest session stood when the latest Released came
    releases,           \* Released events delivered since the last Engaged, 2 = two or more
    heard,              \* play_audio calls in progress when the Released in hand came
    cut                 \* cut[w]: a Released came before w's cue tone had returned

vars == <<hook, button, cb, continue_playback, ai_continue, greeting_thread, timer,
          nextId, kind, pc, tstate, recording, playing, err, calls, disturbed, arrival,
          releases, heard, cut>>

ctl == <<hook, button, cb, continue_playback, greeting_thread, timer, nextId, kind, err,
        releases>>

ghost == <<disturbed, arrival, heard, cut>>

\* ------------------------------------------------------------------ helpers

Contains(s, x) == \E i \in 1..Len(s) : s[i] = x

Exists(w) == kind[w] # "none"

\* Thread.is_alive(): started and not yet returned.
is_alive(w) == pc[w] \notin {"none", "done", "failed"}

Alive == {w \in Sessions : is_alive(w)}

TimerRan(w) == tstate[w] \in {"fired", "notice", "in_notice", "done"}

\* Where the latest session stands (read when a Released arrives):
\*   "stray"   no session has ever existed;
\*   "early"   its worker is running and has not called startRecording;
\*   "arming"  its worker has called startRecording and not yet made the timer;
\*   "armed"   its timer is waiting;
\*   "firing"  time_exceeded is running;
\*   "late"    time_exceeded has returned;
\*   "over"    its timer was cancelled, or its worker ended without making one.
ArrivalPhase ==
    IF greeting_thread = 0 THEN "stray"
    ELSE LET w == greeting_thread IN
         IF tstate[w] = "done" THEN "late"
         ELSE IF TimerRan(w) THEN "firing"
         ELSE IF tstate[w] = "pending" THEN "armed"
         ELSE IF tstate[w] = "none" /\ is_alive(w)
              THEN (IF Contains(calls[w], "R") THEN "arming" ELSE "early")
         ELSE "over"

\* arrival when the Released reaches timer.cancel(): a Released that came after
\* startRecording and before the deadline is "in_time" when the timer has still not
\* elapsed; one that came with the timer waiting is "overtaken" when it has.
ArrivalAtCancel ==
    IF arrival \in {"arming", "armed"} /\ ~TimerRan(greeting_thread) THEN "in_time"
    ELSE IF arrival = "armed" THEN "overtaken"
    ELSE arrival

\* arrival when the handler of the Released returns: "early_handled" when the worker
\* has still not called startRecording.
ArrivalAtReturn ==
    IF arrival = "early" /\ ~Contains(calls[greeting_thread], "R")
    THEN "early_handled"
    ELSE arrival

\* Worker w of play_greeting_and_beep is running and has not called play_audio(beep).
PreBeep(w) == kind[w] = "call" /\ is_alive(w) /\ ~Contains(calls[w], "B")

\* disturbed, after a Released or a deadline.
Disturb == [w \in Sessions |-> disturbed[w] \/ PreBeep(w)]

\* Worker w of beep_and_record_greeting is running and its play_audio(beep) has not
\* returned.
InCue(w) == kind[w] = "greeting" /\ pc[w] \in {"start", "chk_beep", "beep", "in_beep"}

\* cut, after a Released.
Cut == [w \in Sessions |-> cut[w] \/ InCue(w)]

\* ------------------------------------------------------------------ construction

\* __init__: continue_playback = False; no greeting_thread and no timer attribute yet.
\* The switches may be in either position when the program starts.
Init ==
    /\ hook \in {"on", "off"}
    /\ button \in {"up", "down"}
    /\ cb = "idle"
    /\ continue_playback = FALSE
    /\ ai_continue = FALSE
    /\ greeting_thread = 0
    /\ timer = 0
    /\ nextId = 1
    /\ kind = [w \in Sessions |-> "none"]
    /\ pc = [w \in Sessions |-> "none"]
    /\ tstate = [w \in Sessions |-> "none"]
    /\ recording = 0
    /\ playing = {}
    /\ err = FALSE
    /\ calls = [w \in Sessions |-> <<>>]
    /\ disturbed = [w \in Sessions |-> FALSE]
    /\ arrival = "none"
    /\ releases = 0
    /\ heard = {}
    /\ cut = [w \in Sessions |-> FALSE]

\* ------------------------------------------------------------------ Audio Service
\* The contract of the specification, section 6 (audioInterface.py is not at hand).

\* playAudio(file, ...): the call is in progress until it completes or is stopped.
play_audio(w, file) == playing' = playing \cup {<<w, file>>}

\* playAudio returns: the playback completed, or stopPlayback ended it before.
play_audio_returns(w, file) == playing' = playing \ {<<w, file>>}

\* stopPlayback(): ends the playback in progress; a no-op when nothing is playing.
stop_playback == playing' = {}

\* startRecording(outputPath): capture is active when the call returns.
audio_start_recording(w) == recording' = w

\* stopRecording(): stops the capture if one is active; a no-op otherwise.
stop_recording == recording' = 0

\* threading.Timer.cancel(): stops a timer that is still waiting; no effect on one
\* that has fired already.
Cancel(t) == tstate' = [tstate EXCEPT ![t] = IF @ = "pending" THEN "cancelled" ELSE @]

\* ------------------------------------------------------------------ edge-delivery thread

\* threading.Thread(target=...).start(); the handle lands in self.greeting_thread.
StartThread(k) ==
    /\ kind' = [kind EXCEPT ![nextId] = k]
    /\ pc' = [pc EXCEPT ![nextId] = "start"]
    /\ greeting_thread' = nextId
    /\ nextId' = nextId + 1

\* off_hook, whole: nothing it touches is written by another thread, and the new
\* thread's first statement is a step of its own, so the handler is one step.
off_hook ==
    /\ cb = "idle" /\ hook = "on" /\ nextId <= MaxSessions
    /\ hook' = "off"
    /\ continue_playback' = TRUE
    /\ StartThread("call")
    /\ releases' = 0 /\ arrival' = "none"
    /\ UNCHANGED <<button, cb, ai_continue, timer, tstate, recording, playing, err,
                   calls, disturbed, heard, cut>>

\* pressed_record_greeting, whole (as off_hook).
pressed_record_greeting ==
    /\ cb = "idle" /\ button = "up" /\ nextId <= MaxSessions
    /\ button' = "down"
    /\ continue_playback' = TRUE
    /\ StartThread("greeting")
    /\ releases' = 0 /\ arrival' = "none"
    /\ UNCHANGED <<hook, cb, ai_continue, timer, tstate, recording, playing, err,
                   calls, disturbed, heard, cut>>

\* stop_recording_and_playback, line 210: self.continue_playback = False.
srp_210 ==
    /\ continue_playback' = FALSE
    /\ cb' = "srp_211"
    /\ releases' = IF releases = 0 THEN 1 ELSE 2
    /\ disturbed' = Disturb
    /\ arrival' = ArrivalPhase
    /\ heard' = playing
    /\ cut' = Cut
    /\ UNCHANGED <<ai_continue, greeting_thread, timer, nextId, kind, pc, tstate,
                   recording, playing, err, calls>>

\* on_hook: logs, then stop_recording_and_playback.
on_hook ==
    /\ cb = "idle" /\ hook = "off"
    /\ hook' = "on"
    /\ srp_210
    /\ UNCHANGED button

\* released_record_greeting: logs, then stop_recording_and_playback.
released_record_greeting ==
    /\ cb = "idle" /\ button = "down"
    /\ button' = "up"
    /\ srp_210
    /\ UNCHANGED hook

\* stop_recording_and_playback, line 211: self.audio_interface.stop_recording().
srp_211 ==
    /\ cb = "srp_211"
    /\ stop_recording
    /\ cb' = "srp_212"
    /\ UNCHANGED <<hook, button, continue_playback, ai_continue, greeting_thread, timer,
                   nextId, kind, pc, tstate, playing, err, calls, disturbed, arrival,
                   releases, heard, cut>>

\* Mutant of srp_212: self.timer.cancel() without the hasattr test; with no timer
\* attribute the handler ends in an AttributeError.
M_srp_212 ==
    /\ cb = "srp_212"
    /\ IF timer # 0 THEN Cancel(timer) ELSE UNCHANGED tstate
    /\ err' = (err \/ timer = 0)
    /\ cb' = IF timer # 0 THEN "srp_214" ELSE "idle"
    /\ arrival' = ArrivalAtCancel
    /\ UNCHANGED <<hook, button, continue_playback, ai_continue, greeting_thread, timer,
                   nextId, kind, pc, recording, playing, calls, disturbed, releases,
                   heard, cut>>

\* stop_recording_and_playback, lines 212-213: if hasattr(self, "timer"): cancel it.
srp_212 ==
    /\ cb = "srp_212"
    /\ IF timer # 0 THEN Cancel(timer) ELSE UNCHANGED tstate
    /\ cb' = "srp_214"
    /\ arrival' = ArrivalAtCancel
    /\ UNCHANGED <<hook, button, continue_playback, ai_continue, greeting_thread, timer,
                   nextId, kind, pc, recording, playing, err, calls, disturbed,
                   releases, heard, cut>>

\* stop_recording_and_playback, lines 214-216: stop the playback if the thread in
\* self.greeting_thread is alive; the handler returns.
srp_214 ==
    /\ cb = "srp_214"
    /\ IF greeting_thread # 0 /\ is_alive(greeting_thread)
       THEN stop_playback
       ELSE UNCHANGED playing
    /\ cb' = "idle"
    /\ arrival' = ArrivalAtReturn
    /\ heard' = {}
    /\ UNCHANGED <<hook, button, continue_playback, ai_continue, greeting_thread, timer,
                   nextId, kind, pc, tstate, recording, err, calls, disturbed,
                   releases, cut>>

\* ------------------------------------------------------------------ worker threads

\* An Audio Service call raises inside worker w: nothing catches it, the thread ends.
Raise(w) ==
    /\ pc' = [pc EXCEPT ![w] = "failed"]
    /\ UNCHANGED <<playing, recording, calls>>

\* Worker w calls play_audio(file): the playback starts, or the call raises.
CallPlayAudio(w, file, tag, in) ==
    \/ /\ play_audio(w, file)
       /\ calls' = [calls EXCEPT ![w] = Append(@, tag)]
       /\ pc' = [pc EXCEPT ![w] = in]
       /\ UNCHANGED recording
    \/ Raise(w)

\* play_greeting_and_beep, line 108: copy the flag into the audio interface.
pgb_108(w) ==
    /\ kind[w] = "call" /\ pc[w] = "start"
    /\ ai_continue' = continue_playback
    /\ pc' = [pc EXCEPT ![w] = "greeting"]
    /\ UNCHANGED <<ctl, tstate, recording, playing, calls, ghost>>

\* play_greeting_and_beep, lines 110-114: play_audio(greeting) is called.
pgb_110(w) ==
    /\ kind[w] = "call" /\ pc[w] = "greeting"
    /\ CallPlayAudio(w, "greeting", "G", "in_greeting")
    /\ UNCHANGED <<ctl, ai_continue, tstate, ghost>>

\* play_greeting_and_beep, lines 110-114: play_audio(greeting) returns.
pgb_110_returns(w) ==
    /\ kind[w] = "call" /\ pc[w] = "in_greeting"
    /\ play_audio_returns(w, "greeting")
    /\ pc' = [pc EXCEPT ![w] = "chk_rec"]
    /\ UNCHANGED <<ctl, ai_continue, tstate, recording, calls, ghost>>

\* Mutant of pgb_118: the test of line 118 inverted.
M_pgb_118(w) ==
    /\ kind[w] = "call" /\ pc[w] = "chk_rec"
    /\ pc' = [pc EXCEPT ![w] = IF ~continue_playback THEN "rec" ELSE "chk_beep"]
    /\ UNCHANGED <<ctl, ai_continue, tstate, recording, playing, calls, ghost>>

\* play_greeting_and_beep, line 118: if self.continue_playback (then record).
pgb_118(w) ==
    /\ kind[w] = "call" /\ pc[w] = "chk_rec"
    /\ pc' = [pc EXCEPT ![w] = IF continue_playback THEN "rec" ELSE "chk_beep"]
    /\ UNCHANGED <<ctl, ai_continue, tstate, recording, playing, calls, ghost>>

\* Mutant of start_recording_94: the timer of lines 98-101 is made before the call of
\* line 94, so that a call that raises leaves a timer behind.
M_start_recording_94(w) ==
    /\ pc[w] = "rec"
    /\ tstate' = [tstate EXCEPT ![w] = "pending"]
    /\ timer' = w
    /\ \/ /\ audio_start_recording(w)
          /\ calls' = [calls EXCEPT ![w] = Append(@, "R")]
          /\ pc' = [pc EXCEPT ![w] = IF kind[w] = "call" THEN "chk_beep" ELSE "done"]
          /\ UNCHANGED playing
       \/ Raise(w)
    /\ UNCHANGED <<hook, button, cb, continue_playback, ai_continue, greeting_thread,
                   nextId, kind, err, releases, ghost>>

\* start_recording, line 94: self.audio_interface.start_recording(output_file);
\* the capture starts, or the call raises and no timer is made.
start_recording_94(w) ==
    /\ pc[w] = "rec"
    /\ \/ /\ audio_start_recording(w)
          /\ calls' = [calls EXCEPT ![w] = Append(@, "R")]
          /\ pc' = [pc EXCEPT ![w] = "arm"]
          /\ UNCHANGED playing
       \/ Raise(w)
    /\ UNCHANGED <<ctl, ai_continue, tstate, ghost>>

\* start_recording, lines 98-101: self.timer = threading.Timer(...); self.timer.start().
\* Back in the caller: play_greeting_and_beep goes on to the beep check, and
\* beep_and_record_greeting returns.
start_recording_98(w) ==
    /\ pc[w] = "arm"
    /\ tstate' = [tstate EXCEPT ![w] = "pending"]
    /\ timer' = w
    /\ pc' = [pc EXCEPT ![w] = IF kind[w] = "call" THEN "chk_beep" ELSE "done"]
    /\ UNCHANGED <<hook, button, cb, continue_playback, ai_continue, greeting_thread,
                   nextId, kind, recording, playing, err, calls, disturbed, arrival,
                   releases, heard, cut>>

\* play_greeting_and_beep, line 125: if self.continue_playback (then beep).
pgb_125(w) ==
    /\ kind[w] = "call" /\ pc[w] = "chk_beep"
    /\ pc' = [pc EXCEPT ![w] = IF continue_playback THEN "beep" ELSE "done"]
    /\ UNCHANGED <<ctl, ai_continue, tstate, recording, playing, calls, ghost>>

\* play_greeting_and_beep, lines 127-131: play_audio(beep) is called.
pgb_127(w) ==
    /\ kind[w] = "call" /\ pc[w] = "beep"
    /\ CallPlayAudio(w, "beep", "B", "in_beep")
    /\ UNCHANGED <<ctl, ai_continue, tstate, ghost>>

\* play_greeting_and_beep, lines 127-131: play_audio(beep) returns, the thread ends.
pgb_127_returns(w) ==
    /\ kind[w] = "call" /\ pc[w] = "in_beep"
    /\ play_audio_returns(w, "beep")
    /\ pc' = [pc EXCEPT ![w] = "done"]
    /\ UNCHANGED <<ctl, ai_continue, tstate, recording, calls, ghost>>

\* beep_and_record_greeting, line 187: copy the flag into the audio interface.
brg_187(w) ==
    /\ kind[w] = "greeting" /\ pc[w] = "start"
    /\ ai_continue' = continue_playback
    /\ pc' = [pc EXCEPT ![w] = "chk_beep"]
    /\ UNCHANGED <<ctl, tstate, recording, playing, calls, ghost>>

\* beep_and_record_greeting, line 190: if self.continue_playback (then beep).
brg_190(w) ==
    /\ kind[w] = "greeting" /\ pc[w] = "chk_beep"
    /\ pc' = [pc EXCEPT ![w] = IF continue_playback THEN "beep" ELSE "chk_rec"]
    /\ UNCHANGED <<ctl, ai_continue, tstate, recording, playing, calls, ghost>>

\* beep_and_record_greeting, lines 192-196: play_audio(beep) is called.
brg_192(w) ==
    /\ kind[w] = "greeting" /\ pc[w] = "beep"
    /\ CallPlayAudio(w, "beep", "B", "in_beep")
    /\ UNCHANGED <<ctl, ai_continue, tstate, ghost>>

\* beep_and_record_greeting, lines 192-196: play_audio(beep) returns.
brg_192_returns(w) ==
    /\ kind[w] = "greeting" /\ pc[w] = "in_beep"
    /\ play_audio_returns(w, "beep")
    /\ pc' = [pc EXCEPT ![w] = "chk_rec"]
    /\ UNCHANGED <<ctl, ai_continue, tstate, recording, calls, ghost>>

\* beep_and_record_greeting, line 199: if self.continue_playback (then record).
brg_199(w) ==
    /\ kind[w] = "greeting" /\ pc[w] = "chk_rec"
    /\ pc' = [pc EXCEPT ![w] = IF continue_playback THEN "rec" ELSE "done"]
    /\ UNCHANGED <<ctl, ai_continue, tstate, recording, playing, calls, ghost>>

\* ------------------------------------------------------------------ timer threads

\* The Timer made at lines 98-101 elapses without having been cancelled: its thread
\* goes on to call time_exceeded. The interval is a configuration value, so the
\* timer may elapse at any moment after it was started.
timer_elapses(t) ==
    /\ tstate[t] = "pending"
    /\ tstate' = [tstate EXCEPT ![t] = "fired"]
    /\ disturbed' = Disturb
    /\ UNCHANGED <<ctl, ai_continue, pc, recording, playing, calls, arrival, heard, cut>>

\* time_exceeded, line 145: self.audio_interface.stop_recording().
time_exceeded_145(t) ==
    /\ tstate[t] = "fired"
    /\ stop_recording
    /\ tstate' = [tstate EXCEPT ![t] = "notice"]
    /\ disturbed' = Disturb
    /\ UNCHANGED <<ctl, ai_continue, pc, playing, calls, arrival, heard, cut>>

\* time_exceeded, lines 146-148: play_audio(time_exceeded) is called.
time_exceeded_146(t) ==
    /\ tstate[t] = "notice"
    /\ play_audio(t, "time_exceeded")
    /\ tstate' = [tstate EXCEPT ![t] = "in_notice"]
    /\ UNCHANGED <<ctl, ai_continue, pc, recording, calls, ghost>>

\* time_exceeded, lines 146-148: play_audio(time_exceeded) returns, the thread ends.
time_exceeded_returns(t) ==
    /\ tstate[t] = "in_notice"
    /\ play_audio_returns(t, "time_exceeded")
    /\ tstate' = [tstate EXCEPT ![t] = "done"]
    /\ UNCHANGED <<ctl, ai_continue, pc, recording, calls, ghost>>

\* ------------------------------------------------------------------ specification

Callback ==
    \/ off_hook
    \/ on_hook
    \/ pressed_record_greeting
    \/ released_record_greeting
    \/ srp_211
    \/ srp_212
    \/ srp_214

Worker(w) ==
    \/ pgb_108(w)
    \/ pgb_110(w)
    \/ pgb_110_returns(w)
    \/ pgb_118(w)
    \/ pgb_125(w)
    \/ pgb_127(w)
    \/ pgb_127_returns(w)
    \/ brg_187(w)
    \/ brg_190(w)
    \/ brg_192(w)
    \/ brg_192_returns(w)
    \/ brg_199(w)
    \/ start_recording_94(w)
    \/ start_recording_98(w)

TimerThread(t) ==
    \/ timer_elapses(t)
    \/ time_exceeded_145(t)
    \/ time_exceeded_146(t)
    \/ time_exceeded_returns(t)

Next ==
    \/ Callback
    \/ \E w \in Sessions : Worker(w)
    \/ \E t \in Sessions : TimerThread(t)

Spec == Init /\ [][Next]_vars

\* ------------------------------------------------------------------ claims

\* time_exceeded of session w has called stopRecording.
TimerStopped(w) == tstate[w] \in {"notice", "in_notice", "done"}

\* time_exceeded of session w has called play_audio(time_exceeded).
NoticePlayed(w) == tstate[w] \in {"in_notice", "done"}

\* The latest Released came after the latest session's startRecording and has
\* called stopRecording.
ReleaseStopped ==
    /\ arrival \in {"arming", "armed", "in_time", "overtaken", "firing", "late"}
    /\ cb # "srp_211"

\* Of the two paths that finalize the latest session's recording (its deadline and
\* the latest Released), the number that have called stopRecording.
StopPaths ==
    (IF TimerStopped(greeting_thread) THEN 1 ELSE 0) + (IF ReleaseStopped THEN 1 ELSE 0)

IsPrefix(s, t) == Len(s) <= Len(t) /\ \A i \in 1..Len(s) : s[i] = t[i]

\* A step of on_hook / released_record_greeting: cb moves in these handlers only.
ReleasedStep == cb' # cb

\* A step of off_hook / pressed_record_greeting.
EngagedStep == nextId' # nextId

\* C1: at most one worker thread that has not yet exited exists at any time.
C1_Exclusivity == Cardinality(Alive) <= 1

\* C2: a play_greeting_and_beep worker with no Released and no deadline before its
\* beep, none of whose calls raised, issues play_audio(greeting), startRecording,
\* play_audio(beep) in that order and nothing else, and its capture is stopped only
\* after all three.
NormalCallOrder == <<"G", "R", "B">>

Undisturbed(w) == kind[w] = "call" /\ ~disturbed[w] /\ pc[w] # "failed"

C2_Ordering ==
    \A w \in Sessions : Undisturbed(w) =>
        /\ IsPrefix(calls[w], NormalCallOrder)
        /\ pc[w] = "done" => calls[w] = NormalCallOrder
        /\ (Contains(calls[w], "R") /\ recording = 0) => calls[w] = NormalCallOrder
        /\ TimerStopped(w) => calls[w] = NormalCallOrder

\* C2 witness: an undisturbed call session ran to its end, and a Released then
\* stopped its capture.
C2_Witness ==
    \E w \in Sessions :
        /\ Undisturbed(w) /\ pc[w] = "done" /\ calls[w] = NormalCallOrder
        /\ w = greeting_thread /\ recording = 0 /\ arrival = "in_time"

\* C3: when a Released has been handled to the end while the worker had not yet
\* called startRecording, the worker never calls startRecording, and the release
\* raised nothing.
C3_EarlyCancel ==
    arrival = "early_handled" => ~err /\ ~Contains(calls[greeting_thread], "R")

\* C4: when the deadline of a recording session has run time_exceeded and a Released
\* that came with the timer armed, firing or fired has been handled too, exactly one
\* of the two paths has called stopRecording, and the deadline notice was played.
C4_DeadlinePrecedence ==
    (/\ cb = "idle"
     /\ arrival \in {"overtaken", "firing", "late"}
     /\ tstate[greeting_thread] = "done") =>
        StopPaths = 1 /\ NoticePlayed(greeting_thread)

\* C5: the second of two consecutive Released events stops nothing and leaves the
\* cancel flag, the timers and the capture as they are.
C5_DoubleRelease ==
    [][(ReleasedStep /\ releases' = 2) =>
          /\ continue_playback' = continue_playback
          /\ tstate' = tstate
          /\ recording' = recording
          /\ playing' = playing]_vars

\* C6: time_exceeded stops the capture before it plays the notice, and the first
\* Released of a session, when it arrives after time_exceeded has returned, stops
\* nothing that is running and raises nothing.
C6_DeadlineExpiry ==
    [][/\ \A t \in Sessions :
             (tstate[t] = "fired" /\ tstate'[t] = "notice") => recording' = 0
       /\ (ReleasedStep /\ arrival' = "late" /\ releases' = 1) =>
             recording' = recording /\ playing' = playing /\ ~err']_vars

\* C7: when a Released that came after startRecording reaches timer.cancel() before
\* the deadline of the session has elapsed, time_exceeded never runs for the session.
C7_TimerCancelled == arrival = "in_time" => ~TimerRan(greeting_thread)

\* C8: an Engaged that arrives while a worker has not yet exited leaves the worker
\* handle and the cancel flag as they are.
C8_EngagedWhileOccupied ==
    [][(EngagedStep /\ Alive # {}) =>
          /\ greeting_thread' = greeting_thread
          /\ continue_playback' = continue_playback]_vars

\* C9: while no session has ever existed, handling a Released raises nothing, starts
\* no playback and no capture, and touches no timer; once it is handled the
\* controller is as constructed, and the next Engaged can be taken.
C9_StrayRelease ==
    nextId = 1 =>
        /\ ~err
        /\ recording = 0 /\ playing = {}
        /\ timer = 0 /\ greeting_thread = 0
        /\ \A w \in Sessions : tstate[w] = "none" /\ pc[w] = "none"
        /\ cb = "idle" =>
              /\ continue_playback = FALSE
              /\ hook = "on" => ENABLED off_hook
              /\ button = "up" => ENABLED pressed_record_greeting

\* C9 witness: a Released was handled to the end before any session existed.
C9_Witness == nextId = 1 /\ arrival = "stray" /\ cb = "idle"

\* The steps the threads take by themselves; a Released is among them when the
\* handset is off the hook or the button is down.
Progress ==
    \/ on_hook
    \/ released_record_greeting
    \/ srp_211 \/ srp_212 \/ srp_214
    \/ \E w \in Sessions : Worker(w)
    \/ \E t \in Sessions : TimerThread(t)

\* Finalizing: the worker has exited, its capture is not active, its timer not pending.
Finalized(w) == ~is_alive(w) /\ recording # w /\ tstate[w] # "pending"

\* C10: every session reaches Finalizing: where no thread has a step left and no
\* Released is outstanding, so that the run may rest there for ever, every session
\* is finalized.
C10_EventuallyFinalized ==
    ~ENABLED Progress => \A w \in Sessions : Exists(w) => Finalized(w)

\* The fairness C10 speaks of (each thread keeps running, and a Released that is
\* outstanding is delivered), and C10 as a temporal formula under it.
FairSpec ==
    /\ Spec
    /\ WF_vars(on_hook)
    /\ WF_vars(released_record_greeting)
    /\ WF_vars(srp_211 \/ srp_212 \/ srp_214)
    /\ \A w \in Sessions : WF_vars(Worker(w))
    /\ \A t \in Sessions : WF_vars(TimerThread(t))

C10_Live == \A w \in Sessions : [](Exists(w) => <>Finalized(w))

\* C11: once a Released has set the cancel flag of a session whose worker is still
\* running, the flag that worker reads is not set back to not-cancelled while the
\* worker runs. (A running worker with continue_playback = FALSE has had a Released
\* since its Engaged: the Engaged set the flag and only a Released clears it.)
C11_MonotonicCancel ==
    [][(~continue_playback /\ \E w \in Sessions : is_alive(w) /\ is_alive(w)')
          => ~continue_playback']_vars

\* The play_audio calls of the latest session (greeting and beep by its worker, the
\* deadline notice by its timer) that were in progress when the Released in hand came.
HeardOfSession == {p \in heard : p[1] = greeting_thread}

\* C12: when the handler of a Released returns, no play_audio call of the session it
\* ends that was in progress when the Released came is still in progress: the handler
\* has issued stopPlayback, or the call has returned by itself.
C12_FinalizeStopsPlayback ==
    [][(cb = "srp_214" /\ cb' = "idle") => HeardOfSession \cap playing' = {}]_vars

\* C13: once time_exceeded of a session has begun, the worker of the session takes the
\* cancelled branch at its next check: standing before the beep check of line 125, it
\* does not go on to play_audio(beep).
C13_DeadlineSetsCancel ==
    [][\A w \in Sessions :
          (TimerStopped(w) /\ pc[w] = "chk_beep") => pc'[w] # "beep"]_vars

\* C14: a timer exists only for a session whose worker has called startRecording, and
\* a session whose Released came before its worker had called startRecording has no
\* timer.
C14_TimerOnlyWithRecording ==
    /\ \A w \in Sessions : tstate[w] # "none" => Contains(calls[w], "R")
    /\ arrival \in {"early", "early_handled"} => tstate[greeting_thread] = "none"

\* The calls of a beep_and_record_greeting worker that was not cancelled.
GreetingRecordOrder == <<"B", "R">>

\* C15: a beep_and_record_greeting worker never plays the greeting; when no Released
\* came before its beep had returned, it calls startRecording only after
\* play_audio(beep) has returned; when a Released did come before the beep had
\* returned, it never calls startRecording.
C15_GreetingRecordOrder ==
    \A w \in Sessions : kind[w] = "greeting" =>
        /\ ~Contains(calls[w], "G")
        /\ (~cut[w] /\ (pc[w] \in {"rec", "arm"} \/ Contains(calls[w], "R"))) =>
              /\ IsPrefix(calls[w], GreetingRecordOrder)
              /\ Contains(calls[w], "B")
              /\ <<w, "beep">> \notin playing
        /\ cut[w] => ~Contains(calls[w], "R")

\* What holds once an Audio Service call has raised in worker w: the controller has
\* raised nothing, a startRecording that raised has left no timer, and the worker of
\* the next Engaged, when no Released and no deadline come before its beep, issues
\* the normal sequence.
Recovered(w) ==
    /\ ~err
    /\ ~Contains(calls[w], "R") => tstate[w] = "none"
    /\ (w + 1 \in Sessions /\ Undisturbed(w + 1)) =>
          /\ IsPrefix(calls[w + 1], NormalCallOrder)
          /\ pc[w + 1] = "done" => calls[w + 1] = NormalCallOrder

\* C16: a worker in which an Audio Service call has raised takes no further step, and
\* the controller recovers: see Recovered.
C16_LocalRecovery ==
    [][\A w \in Sessions :
          /\ pc[w] = "failed" => (pc'[w] = "failed" /\ calls'[w] = calls[w])
          /\ pc'[w] = "failed" => Recovered(w)']_vars

\* C16 witness: startRecording raised in the first session (after its greeting), and
\* the worker of the next Engaged ran the whole normal sequence.
C16_Witness ==
    /\ pc[1] = "failed" /\ calls[1] = <<"G">> /\ tstate[1] = "none"
    /\ Undisturbed(2) /\ pc[2] = "done" /\ calls[2] = NormalCallOrder

\* The play_audio calls in progress that belong to session w: those of its worker
\* (greeting, beep) and that of its timer (the deadline notice).
PlayingOf(w) == {p \in playing : p[1] = w}

\* C17: at most one play_audio call is in progress at a time; stated for the calls of
\* one session: the deadline notice of a session never overlaps the greeting or the
\* beep its worker is playing.
C17_NoOverlap == \A w \in Sessions : Cardinality(PlayingOf(w)) <= 1

\* C18: every timer that is waiting (started, not elapsed, not cancelled) is the one
\* self.timer refers to; hence at most one timer is waiting, and the timer.cancel()
\* of a Released reaches it.
C18_NoOrphanTimer == \A t \in Sessions : tstate[t] = "pending" => timer = t

\* C19: startRecording is called on the Audio Service only when no capture is active:
\* every capture an earlier startRecording began has been stopped, by a Released or
\* by a deadline, before the next one begins.
C19_NoDoubleStart ==
    [][\A w \in Sessions : (pc[w] = "rec" /\ pc'[w] = "arm") => recording = 0]_vars

====
